---- MODULE Spec2Model ----
(***************************************************************************)
(* Model of src/src/api/mcp_app.py: the MCP tool server of Crawl n Chat.   *)
(*                                                                         *)
(* State: the module global agent_router, the position of the (single)    *)
(* caller inside run_mcp_server, the console log level, the error log,    *)
(* and the chat_with_content invocations (coroutines), each either        *)
(* suspended at `await agent_router.process_query(...)` or finished.      *)
(*                                                                         *)
(* Python values are modelled as follows:                                  *)
(*   None / an object      [kind, id, truthy]  (truthy = bool(obj))        *)
(*   a dict                a function whose DOMAIN is the dict's key set   *)
(*   a list / None value   [t |-> "list", v |-> <<...>>] / [t |-> "None"]  *)
(*   an exception          [cls, msg]   (msg = args[0])                    *)
(*   Optional result       a sequence of length 0 or 1                     *)
(***************************************************************************)
EXTENDS Naturals, Sequences, FiniteSets

VARIABLES
    agent_router,   \* the module global (line 30)
    pc,             \* position of the caller in run_mcp_server
    init_arg,       \* run_mcp_server's parameter init_agent_router
    logLevel,       \* console log level (configure_logging)
    events,         \* the steps the current run_mcp_server call has taken, in order
    raised,         \* <<e>> when the current run_mcp_server call raised e to its caller
    logged,         \* what the current run_mcp_server call wrote with logger.error
    tasks           \* the chat_with_content invocations, in dispatch order

vars == <<agent_router, pc, init_arg, logLevel, events, raised, logged, tasks>>

serverVars == <<agent_router, pc, init_arg, logLevel, events, raised>>

---------------------------------------------------------------------------
(* Bounds *)

\* chat_with_content invocations
MaxTasks == 2

---------------------------------------------------------------------------
(* Python values *)

None == [kind |-> "None", id |-> 0, truthy |-> FALSE]

Obj(i, b) == [kind |-> "obj", id |-> i, truthy |-> b]

\* bool(x): None is falsy; an object is falsy when its __bool__/__len__ says so
Truthy(x) == x.kind = "obj" /\ x.truthy

PyList(s) == [t |-> "list", v |-> s]

PyNone == [t |-> "None", v |-> <<>>]

Exc(c, m) == [cls |-> c, msg |-> m]

\* classes derived from Exception; RuntimeError is the module's own class (line 22)
ExceptionClasses == {"ValueError", "TimeoutError", "KeyError", "TypeError",
                     "RuntimeError", "OSError"}

\* classes derived from BaseException only (asyncio.CancelledError since
\* Python 3.8, KeyboardInterrupt)
BaseOnlyClasses == {"CancelledError", "KeyboardInterrupt"}

\* a handler written `except KeyError`
ExceptCatches_KeyErrorOnly(e) == e.cls = "KeyError"

\* `except Exception as e` (lines 60 and 97)
ExceptCatches(e) == e.cls \in ExceptionClasses

\* str(e): the message; KeyError shows the repr of its key
Str(e) == IF e.cls = "KeyError" THEN "'" \o e.msg \o "'" ELSE e.msg

\* the default returned whatever the dict holds
DictGet_AlwaysDefault(d, k, default) == default

\* d.get(k, default)
DictGet(d, k, default) == IF k \in DOMAIN d THEN d[k] ELSE default

---------------------------------------------------------------------------
(* Inputs *)

Queries == {"good", "bad"}

\* instances a caller may pass as init_agent_router: one truthy, one falsy
ProvidedInstances == {Obj(101, TRUE), Obj(102, FALSE)}

InitArgs == {None} \cup ProvidedInstances

\* what AgentRouter(embedding_model=...) may do: yield an instance, truthy or
\* falsy (a class with __bool__ or __len__), or raise
ConstructorOutcomes == {"truthy", "falsy", "raise"}

ConstructorError == Exc("ValueError", "cannot build router")

\* what process_query may do: return a dict or raise
ResultDicts ==
    { [response |-> "R", sources |-> PyList(<<"s1", "s2">>)],
      [response |-> "R"],
      [response |-> "R", sources |-> PyNone],
      [sources |-> PyList(<<"s1">>)] }

CollaboratorFailures ==
    { Exc("TimeoutError", "timed out"),
      Exc("CancelledError", "") }

ProcessQueryOutcomes ==
    { [kind |-> "dict", value |-> <<d>>, exc |-> <<>>] : d \in ResultDicts }
    \cup { [kind |-> "raise", value |-> <<>>, exc |-> <<e>>] : e \in CollaboratorFailures }

\* what configure_logging / mcp.run may raise
TransportFailures == { Exc("OSError", "stdio closed"), Exc("KeyboardInterrupt", "") }

---------------------------------------------------------------------------
(* chat_with_content, lines 41-62 *)

\* the guard inverted: `if agent_router`
NotInitialized_Inverted(router) == Truthy(router)

\* line 54: `if not agent_router`
NotInitialized(router) == ~Truthy(router)

NotInitializedResult == [error |-> "Service not initialized"]

\* lines 58-59: the body of the try block, given what process_query did.
\* Yields the returned value or the exception raised, as [ok, val, exc].
TryBody(o) ==
    IF o.kind = "raise"
        THEN [ok |-> FALSE, val |-> <<>>, exc |-> o.exc]
    ELSE LET result == o.value[1] IN
         IF "response" \notin DOMAIN result
            THEN [ok |-> FALSE, val |-> <<>>, exc |-> <<Exc("KeyError", "response")>>]
            ELSE [ok |-> TRUE,
                  val |-> <<[response |-> result["response"],
                             sources |-> DictGet(result, "sources", PyList(<<>>))]>>,
                  exc |-> <<>>]

\* the handler returning the bare message
ErrorResult_NoPrefix(e) == [error |-> Str(e)]

\* the handler returning an empty response beside the error
ErrorResult_WithResponse(e) ==
    [error |-> "Error processing query: " \o Str(e), response |-> "", sources |-> PyList(<<>>)]

\* lines 60-62: the handler's return value
ErrorResult(e) == [error |-> "Error processing query: " \o Str(e)]

\* line 61
ChatLogMessage(e) == "Error in chat: " \o Str(e)

\* lines 57-62: what the invocation does once process_query has completed with o:
\* [ret |-> <<value>> or <<>>, exc |-> <<propagated exception>> or <<>>, log |-> set]
ChatOutcome(o) ==
    LET b == TryBody(o) IN
    IF b.ok THEN [ret |-> b.val, exc |-> <<>>, log |-> {}]
    ELSE IF ExceptCatches(b.exc[1])
        THEN [ret |-> <<ErrorResult(b.exc[1])>>, exc |-> <<>>,
              log |-> {ChatLogMessage(b.exc[1])}]
        ELSE [ret |-> <<>>, exc |-> b.exc, log |-> {}]

\* An invocation. Its frame (the parameter `query`, and the receiver `target`
\* and argument `arg` of its process_query call) lives while it is suspended;
\* `calls` counts its process_query calls, `got` is how that call completed,
\* `log` is what it wrote with logger.error, `ret` / `exc` what it returned /
\* let propagate.
NewTask(q) ==
    [pc |-> "start", query |-> <<q>>, target |-> None, arg |-> <<>>,
     calls |-> 0, got |-> <<>>, ret |-> <<>>, exc |-> <<>>, log |-> {}]

\* the frame is released when the coroutine finishes
Released(t) == [t EXCEPT !.query = <<>>, !.target = None, !.arg = <<>>]

\* lines 52-58, up to the suspension at `await`: the handle is read once
Dispatched(t, router) ==
    IF NotInitialized(router)
        THEN [Released(t) EXCEPT !.pc = "done", !.ret = <<NotInitializedResult>>]
        ELSE [t EXCEPT !.pc = "await", !.target = router, !.arg = t.query,
                       !.calls = t.calls + 1]

\* lines 58-62, from the resumption to the return
Completed(t, o) ==
    LET r == ChatOutcome(o) IN
    [Released(t) EXCEPT !.pc = IF r.exc = <<>> THEN "done" ELSE "raised",
                        !.got = <<o>>, !.ret = r.ret, !.exc = r.exc, !.log = r.log]

\* chat_with_content(q) is called: by the transport loop for a client's
\* tools/call request, or directly as a coroutine (in any lifecycle state)
Dispatch(q) ==
    /\ Len(tasks) < MaxTasks
    /\ tasks' = Append(tasks, Dispatched(NewTask(q), agent_router))
    /\ UNCHANGED <<serverVars, logged>>

\* a handler that drops the router after a failure
ChatComplete_Poison(i, o) ==
    /\ i \in 1..Len(tasks)
    /\ tasks[i].pc = "await"
    /\ tasks' = [tasks EXCEPT ![i] = Completed(tasks[i], o)]
    /\ agent_router' = IF TryBody(o).ok THEN agent_router ELSE None
    /\ UNCHANGED <<pc, init_arg, logLevel, events, raised, logged>>

\* invocations served one at a time: a completion waits for every invocation
\* dispatched before it
ChatComplete_InOrder(i, o) ==
    /\ i \in 1..Len(tasks)
    /\ tasks[i].pc = "await"
    /\ \A j \in 1..(i - 1) : tasks[j].pc # "await"
    /\ tasks' = [tasks EXCEPT ![i] = Completed(tasks[i], o)]
    /\ UNCHANGED <<serverVars, logged>>

\* process_query completes and the coroutine runs to its end
ChatComplete(i, o) ==
    /\ i \in 1..Len(tasks)
    /\ tasks[i].pc = "await"
    /\ tasks' = [tasks EXCEPT ![i] = Completed(tasks[i], o)]
    /\ UNCHANGED <<serverVars, logged>>

---------------------------------------------------------------------------
(* run_mcp_server, lines 65-99 *)

Resting == {"idle", "failed", "stopped", "crashed"}

\* the caller calls run_mcp_server(init_agent_router = a)
Call(a) ==
    /\ pc \in Resting
    /\ pc' = "init"
    /\ init_arg' = a
    /\ events' = <<>>
    /\ raised' = <<>>
    /\ logged' = {}
    /\ UNCHANGED <<agent_router, logLevel, tasks>>

\* line 79: `if init_agent_router`
UseProvided(a) == Truthy(a)

\* the objects some reference is held to: the global and the suspended
\* invocations' receivers
LiveIds ==
    { x.id : x \in { y \in {agent_router} \cup { tasks[i].target : i \in 1..Len(tasks) } :
                      y.kind = "obj" } }

\* the identity of a newly constructed object: one no live object has
FreshId == CHOOSE n \in 1..(MaxTasks + 2) : n \notin LiveIds

\* the value AgentRouter(embedding_model=DEFAULT_EMBEDDING_MODEL) yields (line 80)
Constructed(out, n) == Obj(n, out = "truthy")

\* lines 77-81: the assignment of the global; the parameter is not read again
Initialize ==
    /\ pc = "init"
    /\ IF UseProvided(init_arg)
         THEN /\ agent_router' = init_arg
              /\ events' = Append(events, "adopt")
              /\ pc' = "check"
              /\ UNCHANGED raised
         ELSE \E out \in ConstructorOutcomes :
              /\ events' = Append(events, "construct")
              /\ IF out = "raise"
                   THEN /\ pc' = "failed"
                        /\ raised' = <<ConstructorError>>
                        /\ UNCHANGED agent_router
                   ELSE /\ agent_router' = Constructed(out, FreshId)
                        /\ pc' = "check"
                        /\ UNCHANGED raised
    /\ init_arg' = None
    /\ UNCHANGED <<logLevel, logged, tasks>>

NotReadyError == Exc("RuntimeError",
                     "Shared services must be initialized before starting the server")

\* the check written `if agent_router is None`
MustRaise_NoneOnly(router) == router.kind = "None"

\* line 83: `if not agent_router`
MustRaise(router) == ~Truthy(router)

\* the check left out: the run goes on whatever the handle holds
Check_Skip ==
    /\ pc = "check"
    /\ pc' = "try"
    /\ UNCHANGED <<agent_router, init_arg, logLevel, events, raised, logged, tasks>>

\* lines 83-86
Check ==
    /\ pc = "check"
    /\ IF MustRaise(agent_router)
         THEN pc' = "failed" /\ raised' = <<NotReadyError>>
         ELSE pc' = "try" /\ UNCHANGED raised
    /\ UNCHANGED <<agent_router, init_arg, logLevel, events, logged, tasks>>

\* line 98
ServerLogMessage(e) == "MCP server failed to start or crashed: " \o Str(e)

\* lines 97-99: what the handler logs when e leaves the try block
HandlerLog(e) == IF ExceptCatches(e) THEN {ServerLogMessage(e)} ELSE {}

\* a failure of configure_logging swallowed, the server started all the same
ConfigureLogging_Swallow ==
    /\ pc = "try"
    /\ events' = Append(events, "configure_logging")
    /\ pc' = "run"
    /\ \/ logLevel' = "CRITICAL"
       \/ UNCHANGED logLevel
    /\ UNCHANGED <<agent_router, init_arg, raised, logged, tasks>>

\* line 91
ConfigureLogging ==
    /\ pc = "try"
    /\ events' = Append(events, "configure_logging")
    /\ \/ /\ logLevel' = "CRITICAL"
          /\ pc' = "run"
          /\ UNCHANGED <<raised, logged>>
       \/ \E e \in TransportFailures :
          /\ pc' = "failed"
          /\ raised' = <<e>>
          /\ logged' = logged \cup HandlerLog(e)
          /\ UNCHANGED logLevel
    /\ UNCHANGED <<agent_router, init_arg, tasks>>

\* line 94: mcp.run(transport="stdio") is called and either starts serving or raises
McpRun ==
    /\ pc = "run"
    /\ events' = Append(events, "mcp.run")
    /\ \/ /\ pc' = "serving"
          /\ UNCHANGED <<raised, logged>>
       \/ \E e \in TransportFailures :
          /\ pc' = "failed"
          /\ raised' = <<e>>
          /\ logged' = logged \cup HandlerLog(e)
    /\ UNCHANGED <<agent_router, init_arg, logLevel, tasks>>

\* a shutdown that clears the global
TransportClosed_Clear ==
    /\ pc = "serving"
    /\ pc' = "stopped"
    /\ agent_router' = None
    /\ UNCHANGED <<init_arg, logLevel, events, raised, logged, tasks>>

\* line 94 returns: the transport was closed
TransportClosed ==
    /\ pc = "serving"
    /\ pc' = "stopped"
    /\ UNCHANGED <<agent_router, init_arg, logLevel, events, raised, logged, tasks>>

\* a handler that starts the server over instead of re-raising
TransportCrashed_Restart ==
    /\ pc = "serving"
    /\ \E e \in TransportFailures :
          /\ pc' = "init"
          /\ logged' = logged \cup HandlerLog(e)
    /\ UNCHANGED <<agent_router, init_arg, logLevel, events, raised, tasks>>

\* a handler that logs the failure and returns normally
TransportCrashed_Swallow ==
    /\ pc = "serving"
    /\ \E e \in TransportFailures :
          /\ pc' = "stopped"
          /\ logged' = logged \cup HandlerLog(e)
    /\ UNCHANGED <<agent_router, init_arg, logLevel, events, raised, tasks>>

\* line 94 raises while serving: lines 97-99
TransportCrashed ==
    /\ pc = "serving"
    /\ \E e \in TransportFailures :
          /\ pc' = "crashed"
          /\ raised' = <<e>>
          /\ logged' = logged \cup HandlerLog(e)
    /\ UNCHANGED <<agent_router, init_arg, logLevel, events, tasks>>

---------------------------------------------------------------------------
(* Specification *)

Init ==
    /\ agent_router = None
    /\ pc = "idle"
    /\ init_arg = None
    /\ logLevel = "DEFAULT"
    /\ events = <<>>
    /\ raised = <<>>
    /\ logged = {}
    /\ tasks = <<>>

ChatNext ==
    \/ \E q \in Queries : Dispatch(q)
    \/ \E i \in 1..MaxTasks, o \in ProcessQueryOutcomes : ChatComplete(i, o)

ServerNext ==
    \/ Initialize
    \/ Check
    \/ ConfigureLogging
    \/ McpRun
    \/ TransportClosed
    \/ TransportCrashed

Next ==
    \/ \E a \in InitArgs : Call(a)
    \/ ServerNext
    \/ ChatNext

Spec == Init /\ [][Next]_vars

\* the process entry point (lines 102-103) and any caller that starts the
\* server once: run_mcp_server is called at most once in the process's life
CallOnce(a) == pc = "idle" /\ Call(a)

NextOnce ==
    \/ \E a \in InitArgs : CallOnce(a)
    \/ ServerNext
    \/ ChatNext

SpecOnce == Init /\ [][NextOnce]_vars

\* The event loop resumes a coroutine once the call it awaits has completed.
\* In a process that starts the server once: the process_query call of the
\* first invocation may never complete; those of the later invocations all do.
SpecFair ==
    /\ SpecOnce
    /\ \A i \in 2..MaxTasks :
          WF_vars(\E o \in ProcessQueryOutcomes : ChatComplete(i, o))

\* the lifecycle state of spec section 4.2, read off the caller's position
LifecycleState ==
    CASE pc = "idle" -> "Uninitialized"
      [] pc \in {"init", "check", "try", "run"} -> "Initializing"
      [] pc = "serving" -> "Serving"
      [] pc = "failed" -> "Failed"
      [] pc \in {"stopped", "crashed"} -> "Stopped"

\* everything written with logger.error (lines 61 and 98)
ErrorLog == logged \cup UNION { tasks[i].log : i \in 1..Len(tasks) }

TypeOK ==
    /\ pc \in Resting \cup {"init", "check", "try", "run", "serving"}
    /\ logLevel \in {"DEFAULT", "CRITICAL"}
    /\ Len(tasks) <= MaxTasks
    /\ \A i \in 1..Len(tasks) : tasks[i].pc \in {"await", "done", "raised"}

---------------------------------------------------------------------------
(* Properties *)

Tasks == { tasks[i] : i \in 1..Len(tasks) }

\* the invocation the step has just dispatched
Newest == tasks'[Len(tasks')]

IsDispatch == Len(tasks') = Len(tasks) + 1

\* a step of some chat_with_content invocation
IsChatStep == tasks' # tasks

SuccessShape == {"response", "sources"}

ErrorShape == {"error"}

\* C1: when the handle is None as chat_with_content is dispatched, in whatever
\* lifecycle state, the invocation finishes in that same step with exactly
\* {error: "Service not initialized"} and has not called process_query.
C1_FastFailWhenNull ==
    [][ (IsDispatch /\ agent_router = None) =>
            /\ Newest.pc = "done"
            /\ Newest.ret = <<[error |-> "Service not initialized"]>>
            /\ Newest.exc = <<>>
            /\ Newest.calls = 0
            /\ Newest.got = <<>> ]_vars

\* an invocation has failed fast after a failed start left the handle None
C1_Witness ==
    /\ agent_router = None
    /\ LifecycleState = "Failed"
    /\ \E t \in Tasks : t.ret = <<[error |-> "Service not initialized"]>>

\* C2 as stated: no failure of process_query, of whatever kind, leaves
\* chat_with_content as an exception; every finished invocation has returned
\* a value.
C2_NothingPropagates ==
    \A t \in Tasks : t.pc # "raised" /\ t.exc = <<>>

\* C2 amended: a failure derived from Exception (also the KeyError of a result
\* without "response") is caught and the invocation returns exactly
\* {error: "Error processing query: " + str(failure)}; a failure derived from
\* BaseException only (asyncio.CancelledError) is not caught and propagates.
C2_ExceptionsCaught ==
    \A t \in Tasks : t.got # <<>> =>
        LET o == t.got[1] IN
        /\ (o.kind = "raise" /\ o.exc[1].cls \in ExceptionClasses) =>
              /\ t.pc = "done"
              /\ t.exc = <<>>
              /\ t.ret = <<[error |-> "Error processing query: " \o o.exc[1].msg]>>
        /\ (o.kind = "dict" /\ "response" \notin DOMAIN o.value[1]) =>
              /\ t.pc = "done"
              /\ t.exc = <<>>
              /\ t.ret = <<[error |-> "Error processing query: 'response'"]>>
        /\ (o.kind = "raise" /\ o.exc[1].cls \in BaseOnlyClasses) =>
              /\ t.pc = "raised"
              /\ t.ret = <<>>
              /\ t.exc = o.exc

\* a timeout was caught and reported, and a result without "response" too
C2_Witness ==
    /\ \E t \in Tasks : t.ret = <<[error |-> "Error processing query: timed out"]>>
    /\ \E t \in Tasks : t.ret = <<[error |-> "Error processing query: 'response'"]>>

\* C3: no step of a chat_with_content invocation changes the handle or the
\* lifecycle state, and an invocation whose process_query returned a result
\* with a response returns the success shape carrying that response, whatever
\* failed before or beside it.
C3_FailureDoesNotPoison ==
    /\ [][ IsChatStep => /\ agent_router' = agent_router
                         /\ LifecycleState' = LifecycleState ]_vars
    /\ [](\A t \in Tasks :
            (t.got # <<>> /\ t.got[1].kind = "dict"
                /\ "response" \in DOMAIN t.got[1].value[1]) =>
                /\ t.pc = "done"
                /\ Len(t.ret) = 1
                /\ DOMAIN t.ret[1] = SuccessShape
                /\ t.ret[1].response = t.got[1].value[1].response)

\* an invocation dispatched after a failed one has succeeded
C3_Witness ==
    \E i, j \in 1..Len(tasks) :
        /\ i < j
        /\ tasks[i].got # <<>> /\ tasks[i].got[1].kind = "raise"
        /\ tasks[j].ret # <<>> /\ DOMAIN tasks[j].ret[1] = SuccessShape

\* C4: every value chat_with_content returns has exactly one of the two
\* shapes: {response, sources} without error, or {error} alone.
C4_OneShape ==
    \A t \in Tasks : \A k \in 1..Len(t.ret) :
        \/ DOMAIN t.ret[k] = SuccessShape
        \/ DOMAIN t.ret[k] = ErrorShape

\* a success and a collaborator failure have both been returned
C4_Witness ==
    /\ \E t \in Tasks : t.ret # <<>> /\ DOMAIN t.ret[1] = SuccessShape
    /\ \E t \in Tasks : t.ret # <<>> /\ t.got # <<>> /\ DOMAIN t.ret[1] = ErrorShape

\* the steps of the current run_mcp_server call
Occurs(ev) == \E k \in 1..Len(events) : events[k] = ev

Count(ev) == Cardinality({ k \in 1..Len(events) : events[k] = ev })

\* C5 as stated: a call of run_mcp_server with no provided instance, made when
\* the handle already holds an instance dispatches can reach, does not replace
\* it by another one: the handle holds one instance for the process's life.
C5_NeverReplaced ==
    [][ (pc = "init" /\ init_arg = None /\ Truthy(agent_router)) =>
            agent_router' = agent_router ]_vars

\* C6 as stated: when run_mcp_server is given an instance, whatever its truth
\* value, lines 77-81 construct nothing and set the handle to that instance.
C6_ProvidedAdopted ==
    [][ (pc = "init" /\ init_arg # None /\ pc' # "init") =>
            /\ agent_router' = init_arg
            /\ ~Occurs("construct")' ]_vars

\* C7: mcp.run is called only as the third step of a run, right after
\* configure_logging, which follows the construction or adoption of the
\* backend; whenever it has been called the console level is CRITICAL and the
\* handle holds a usable instance.
C7_StartupOrder ==
    (pc = "serving" \/ Occurs("mcp.run")) =>
        /\ Len(events) = 3
        /\ events[1] \in {"construct", "adopt"}
        /\ events[2] = "configure_logging"
        /\ events[3] = "mcp.run"
        /\ logLevel = "CRITICAL"
        /\ Truthy(agent_router)

\* the server is serving, for the first time in this process or again
C7_Witness == pc = "serving" /\ events[1] = "construct"

\* C8: while and after the server serves, the handle is never None again, and
\* no step of a chat_with_content invocation writes it.
C8_HandleStaysSet ==
    /\ [](pc = "serving" => agent_router # None)
    /\ [][ agent_router # None => agent_router' # None ]_vars
    /\ [][ IsChatStep => agent_router' = agent_router ]_vars

\* the transport has shut down and invocations have finished, one of them
\* after a collaborator failure
C8_Witness ==
    /\ pc \in {"stopped", "crashed"}
    /\ agent_router # None
    /\ \E t \in Tasks : t.got # <<>> /\ t.got[1].kind = "raise"

\* the constructor was invoked in this run and threw, or yielded an instance
\* that is not usable
ConstructionFailed ==
    /\ Occurs("construct")
    /\ \/ raised = <<ConstructorError>>
       \/ ~Truthy(agent_router)

\* C9: a run invokes the constructor at most once; when the construction
\* fails the run takes no further step but to raise to its caller:
\* configure_logging and mcp.run are never called and Serving is never reached.
C9_InitFailureFatal ==
    /\ Count("construct") <= 1
    /\ ConstructionFailed =>
          /\ events = <<"construct">>
          /\ pc \in {"check", "failed"}
          /\ pc = "failed" =>
                \/ raised = <<ConstructorError>>
                \/ raised = <<Exc("RuntimeError",
                       "Shared services must be initialized before starting the server")>>

\* the constructor yielded a falsy instance and line 84 raised
C9_Witness ==
    /\ pc = "failed"
    /\ events = <<"construct">>
    /\ agent_router.kind = "obj"
    /\ raised # <<>> /\ raised[1].cls = "RuntimeError"

\* the lifecycle transitions of spec section 4.2, and the end of the transport
LifecycleSteps ==
    { <<"Uninitialized", "Initializing">>,
      <<"Initializing", "Serving">>,
      <<"Initializing", "Failed">>,
      <<"Serving", "Stopped">> }

Returned == { t \in Tasks : t.got # <<>> /\ t.got[1].kind = "dict" }

\* the dict process_query returned to t
ResultOf(t) == t.got[1].value[1]

\* C11: when process_query returns a dict with a response R and a list S of
\* sources, chat_with_content returns exactly {response: R, sources: S}: the
\* same entries in the same order, and no other field.
C11_PassThrough ==
    \A t \in Returned :
        (DOMAIN ResultOf(t) = {"response", "sources"}
            /\ ResultOf(t).sources.t = "list") =>
            /\ t.pc = "done"
            /\ t.exc = <<>>
            /\ t.ret = <<[response |-> ResultOf(t).response,
                          sources |-> ResultOf(t).sources]>>

\* a result with two sources has been passed through in order
C11_Witness ==
    \E t \in Tasks :
        t.ret = <<[response |-> "R", sources |-> [t |-> "list", v |-> <<"s1", "s2">>]]>>

\* C12 as stated: when process_query returns a dict with a response R and no
\* sources value (the key absent, or present with the value None),
\* chat_with_content returns {response: R, sources: []}.
C12_DefaultEmptySources ==
    \A t \in Returned :
        ("response" \in DOMAIN ResultOf(t)
            /\ ("sources" \notin DOMAIN ResultOf(t) \/ ResultOf(t).sources.t = "None")) =>
            t.ret = <<[response |-> ResultOf(t).response,
                       sources |-> [t |-> "list", v |-> <<>>]]>>

\* C13: the handle is written (lines 77-81) before mcp.run is called, so an
\* invocation dispatched while the transport loop serves reads a usable
\* handle: it is forwarded to that instance and never answered with
\* {error: "Service not initialized"}.
C13_SafePublish ==
    /\ [](Occurs("mcp.run") => events[1] \in {"construct", "adopt"})
    /\ [][ (IsDispatch /\ pc = "serving") =>
              /\ Newest.pc = "await"
              /\ Newest.target = agent_router
              /\ Newest.target.kind = "obj"
              /\ Newest.ret = <<>> ]_vars

\* an invocation is in flight while the transport loop serves
C13_Witness ==
    /\ pc = "serving"
    /\ \E t \in Tasks : t.pc = "await" /\ t.target = agent_router

Suspended(i) == i <= Len(tasks) /\ tasks[i].pc = "await"

Finished(i) == i <= Len(tasks) /\ tasks[i].pc \in {"done", "raised"}

\* C14 as stated: while the first invocation stays suspended, every later
\* invocation whose process_query call has completed has returned a result.
C14_OthersReturn ==
    \A i \in 2..MaxTasks :
        (Suspended(1) /\ Finished(i) /\ tasks[i].got # <<>>) => tasks[i].ret # <<>>

\* C14 amended: while an invocation stays suspended, further invocations are
\* still accepted, and every later invocation whose process_query call
\* completes eventually finishes: it returns its result, unless that call
\* raised a failure derived from BaseException only, which propagates.
C14_OthersFinish ==
    /\ [](Len(tasks) < MaxTasks => ENABLED (\E q \in Queries : Dispatch(q)))
    /\ \A i \in 2..MaxTasks : Suspended(i) ~> Finished(i)
    /\ [](\A i \in 1..Len(tasks) :
            (Finished(i) /\ tasks[i].got # <<>>) =>
                \/ tasks[i].ret # <<>>
                \/ /\ tasks[i].got[1].kind = "raise"
                   /\ tasks[i].got[1].exc[1].cls \in BaseOnlyClasses)

\* the first invocation is still suspended and a later one has returned
C14_Witness ==
    /\ Suspended(1)
    /\ Finished(2) /\ tasks[2].got # <<>> /\ tasks[2].ret # <<>>

\* how the process_query call of t ended with a failure derived from
\* BaseException only
Cancelled(t) ==
    /\ t.got # <<>>
    /\ t.got[1].kind = "raise"
    /\ t.got[1].exc[1].cls \in BaseOnlyClasses

\* C15 as stated: every invocation whose process_query call has completed, by
\* returning or by raising, has produced exactly one result value.
C15_ExactlyOneResult ==
    \A t \in Tasks : t.got # <<>> => Len(t.ret) = 1

\* C15 amended: an invocation whose process_query call returned, or raised a
\* failure derived from Exception, has produced exactly one result value and
\* raised nothing; one whose call raised a failure derived from BaseException
\* only has produced none and lets it propagate. A result once produced is
\* never replaced, and no step of an invocation moves run_mcp_server: the
\* server stays in Serving.
C15_OneResultUnlessCancelled ==
    /\ [](\A t \in Tasks :
            /\ Len(t.ret) <= 1
            /\ (t.got # <<>> /\ ~Cancelled(t)) => (Len(t.ret) = 1 /\ t.exc = <<>>)
            /\ Cancelled(t) => (t.ret = <<>> /\ t.exc = t.got[1].exc))
    /\ [][ \A i \in 1..Len(tasks) :
              tasks[i].ret # <<>> => tasks'[i].ret = tasks[i].ret ]_vars
    /\ [][ IsChatStep => (pc' = pc /\ raised' = raised) ]_vars

\* while the server serves, one invocation has reported a collaborator
\* failure and another has been cancelled
C15_Witness ==
    /\ pc = "serving"
    /\ \E t \in Tasks : t.got # <<>> /\ t.got[1].kind = "raise" /\ Len(t.ret) = 1
    /\ \E t \in Tasks : Cancelled(t)

\* the current run ended with a failure raised inside the try block
\* (lines 88-94): by configure_logging, by mcp.run starting, or by the loop
FailedInTry == pc \in {"failed", "crashed"} /\ Occurs("configure_logging")

\* C16 as stated: a failure raised inside the try block is logged at error
\* severity and re-raised to the caller.
C16_LoggedAndReraised ==
    FailedInTry =>
        /\ raised # <<>>
        /\ logged = {"MCP server failed to start or crashed: " \o raised[1].msg}

\* C16 amended: a failure raised inside the try block is always re-raised to
\* the caller, and it is logged at error severity when it derives from
\* Exception; one that derives from BaseException only is re-raised
\* unlogged. run_mcp_server returns normally only when mcp.run returned,
\* having logged and raised nothing.
C16_ReraisedLoggedIfException ==
    /\ FailedInTry =>
          /\ raised # <<>>
          /\ raised[1].cls \in ExceptionClasses =>
                logged = {"MCP server failed to start or crashed: " \o raised[1].msg}
          /\ raised[1].cls \in BaseOnlyClasses => logged = {}
    /\ pc = "stopped" =>
          /\ raised = <<>>
          /\ logged = {}
          /\ events[Len(events)] = "mcp.run"
    /\ logged # {} => FailedInTry

\* the loop crashed while serving and the failure was logged and re-raised
C16_Witness ==
    /\ pc = "crashed"
    /\ raised = <<[cls |-> "OSError", msg |-> "stdio closed"]>>
    /\ logged = {"MCP server failed to start or crashed: stdio closed"}

\* C17 as stated: when the handle holds an instance (is not None) as
\* chat_with_content is dispatched, the invocation calls that instance's
\* process_query once, with the query it received, and never calls it again.
C17_InvokedOnceWhenNonNull ==
    /\ [][ (IsDispatch /\ agent_router # None) =>
              /\ Newest.calls = 1
              /\ Newest.target = agent_router
              /\ Newest.arg = Newest.query ]_vars
    /\ [][ \A i \in 1..Len(tasks) : tasks'[i].calls = tasks[i].calls ]_vars

====
